---- MODULE Spec2Model ----
(***************************************************************************)
(* State-machine model of the weather MCP servers: the HTTP server class   *)
(* MCPServer (session map, per-session stream timers, tool-change timer,   *)
(* call-tool handler) and the stdio server class Weather (call-tool        *)
(* handler).                                                               *)
(*                                                                         *)
(* Every async handler is cut at its `await` points: one action for the    *)
(* synchronous part that runs when the handler is called, one action per   *)
(* resumption.  Calls into the SDK transport / axios are environment       *)
(* steps whose outcome (return, throw, session id assigned or not) is     *)
(* chosen nondeterministically.                                            *)
(***************************************************************************)
EXTENDS Integers, Sequences, FiniteSets, TLC

VARIABLES
    transports,      \* MCPServer.transports: session id -> transport
    created,         \* number of StreamableHTTPServerTransport objects constructed
    sessionIdOf,     \* transport.sessionId of every constructed transport
    closed,          \* transports whose close() has run
    serverTransport, \* the transport this.server is connected to
    toolInterval,    \* MCPServer.toolInterval: "active" or "closed"
    lastBroadcast,   \* what the toolInterval callback sent, when the latest step was one
    inflight,        \* the HTTP handler invocations suspended at an await
    last,            \* how a handler invocation ended, when the latest step ended one
    timers,          \* the intervals created by streamMessages
    listTools,       \* the tools the registered list-tools handler returns
    cleanedUp,       \* cleanup() has been called
    call             \* the call-tool handler invocation (either server)

vars == <<transports, created, sessionIdOf, closed, serverTransport, toolInterval,
          lastBroadcast, inflight, last, timers, listTools, cleanedUp, call>>

httpVars == <<transports, created, sessionIdOf, closed, serverTransport, toolInterval,
              lastBroadcast, inflight, last, timers, listTools, cleanedUp>>

-----------------------------------------------------------------------------
(* Bounds *)

MaxTransports == 2
MaxInFlight == 2
MaxTimers == 2

-----------------------------------------------------------------------------
(* Values *)

\* req.headers[...] of a request without the header, and transport.sessionId
\* before the SDK assigns one: JavaScript's undefined.
Undefined == "<undefined>"

\* The n-th value produced by randomUUID().
randomUUID(n) == "uuid-" \o ToString(n)

\* `transports` is a plain object literal, so a lookup of a key it does not own
\* falls through to Object.prototype: these keys yield an inherited function.
ProtoKeys == {"constructor"}

NoTransport == 0
ProtoMember == -1

TransportIds == 1..MaxTransports

\* The session ids the sessionIdGenerator can hand out.
SessionIds == {randomUUID(n) : n \in TransportIds}

\* Values a client can put in the mcp-session-id header.
Headers == {Undefined, ""} \cup ProtoKeys \cup SessionIds

\* Request bodies: a single message or an array of messages, each message
\* reduced to its method.
Body(isArray, elems) == [isArray |-> isArray, elems |-> elems]

Bodies == { Body(FALSE, <<"initialize">>),
            Body(FALSE, <<"tools/call">>),
            Body(TRUE, <<"tools/call", "initialize">>),
            Body(TRUE, <<"tools/call", "tools/list">>) }

NoBody == Body(FALSE, <<>>)

\* JavaScript truthiness of a string | undefined.
Truthy(s) == s # Undefined /\ s # ""

-----------------------------------------------------------------------------
(* Pure helpers of MCPServer *)

\* InitializeRequestSchema.safeParse(data).success
isInitial(data) == data = "initialize"

isInitializeRequest(body) ==
    IF body.isArray
    THEN \E i \in 1..Len(body.elems) : isInitial(body.elems[i])
    ELSE Len(body.elems) = 1 /\ isInitial(body.elems[1])

createErrorResponse(message) ==
    [jsonrpc |-> "2.0", error |-> [code |-> -32000, message |-> message]]

NoResponse == [jsonrpc |-> "", error |-> [code |-> 0, message |-> ""]]

\* The own keys of the session map (the map is held as a total function on
\* SessionIds, NoTransport marking a key the object does not have).
Keys(map) == {k \in SessionIds : map[k] # NoTransport}

\* A lookup that yields the transport registered last, whatever the key.
TransportsGetLatest(map, sessionId) ==
    IF sessionId \in Keys(map)
    THEN CHOOSE t \in {map[k] : k \in Keys(map)} : \A k \in Keys(map) : map[k] <= t
    ELSE IF sessionId \in ProtoKeys THEN ProtoMember
    ELSE NoTransport

\* this.transports[sessionId]
TransportsGet(map, sessionId) ==
    IF sessionId \in Keys(map) THEN map[sessionId]
    ELSE IF sessionId \in ProtoKeys THEN ProtoMember
    ELSE NoTransport

\* A broadcast list holding every transport constructed, registered or not.
ObjectValuesCreated(map) ==
    [t \in TransportIds |-> IF t <= created THEN 1 ELSE 0]

\* Object.values(this.transports), as transport -> number of occurrences
ObjectValues(map) ==
    [t \in TransportIds |-> Cardinality({k \in Keys(map) : map[k] = t})]

\* PostRoute without the `!sessionId` test of the create branch.
PostRouteAnyHeader(map, sessionId, body) ==
    IF Truthy(sessionId) /\ TransportsGet(map, sessionId) # NoTransport THEN "reuse"
    ELSE IF isInitializeRequest(body) THEN "create"
    ELSE "reject"

\* The branch handlePostRequest takes.
PostRoute(map, sessionId, body) ==
    IF Truthy(sessionId) /\ TransportsGet(map, sessionId) # NoTransport THEN "reuse"
    ELSE IF ~Truthy(sessionId) /\ isInitializeRequest(body) THEN "create"
    ELSE "reject"

\* The branch handleGetRequest takes.
GetRoute(map, sessionId) ==
    IF ~Truthy(sessionId) \/ TransportsGet(map, sessionId) = NoTransport THEN "reject"
    ELSE "stream"

-----------------------------------------------------------------------------
(* Handler invocations *)

Idle == [pc |-> "idle", verb |-> "", header |-> Undefined, body |-> NoBody,
         transport |-> NoTransport]

Slots == 1..MaxInFlight

FreeSlot(r) == /\ inflight[r].pc = "idle"
               /\ \A q \in Slots : q < r => inflight[q].pc # "idle"

\* How a handler invocation ended: the HTTP status and body this class wrote
\* (status 0: it wrote none), the transport whose handleRequest was given the
\* request (NoTransport: none), and whether the handler's promise rejected.
Ended(verb, header, body, status, response, by, rejected) ==
    [verb |-> verb, header |-> header, body |-> body, status |-> status,
     response |-> response, by |-> by, rejected |-> rejected]

NoneEnded == Ended("", Undefined, NoBody, 0, NoResponse, NoTransport, FALSE)

BadRequest == "Bad Request: invalid session ID or method."
InternalServerError == "Internal server error."

\* What one run of the toolInterval callback did: how many list_changed
\* notifications it sent to each transport, the transports whose send failed,
\* and the transports whose failure ended as a rejection nobody handles.
Broadcast(sent, failed, unhandled) ==
    [sent |-> sent, failed |-> failed, unhandled |-> unhandled]

NoBroadcast == Broadcast([t \in TransportIds |-> 0], {}, {})

\* An invocation of the call-tool handler: where it stands, the request, the
\* number of outbound GETs it issued, what the upstream did and the error the
\* handler threw (NoError: none).
NoError == [class |-> "", code |-> 0, message |-> ""]

Call(pc, server, name, args, gets, upstream, error) ==
    [pc |-> pc, server |-> server, name |-> name, args |-> args, gets |-> gets,
     upstream |-> upstream, error |-> error]

NoCall == Call("idle", "", "", [defined |-> FALSE, latitude |-> Undefined,
                                longitude |-> Undefined], 0, "", NoError)

\* The exported tool descriptor.
weatherTool ==
    [name |-> "get-weather",
     description |-> "Get weather wind e etc..",
     inputSchema |->
        [type |-> "object",
         properties |-> [latitude |-> [type |-> "string", description |-> "Latitude"],
                         longitude |-> [type |-> "string", description |-> "Longitude"]],
         required |-> <<"latitude", "longitude">>]]

\* setToolSchema(): registers the list-tools handler; the value is the tools
\* that handler returns.
setToolSchema == <<weatherTool>>

Init ==
    /\ transports = [k \in SessionIds |-> NoTransport]
    /\ created = 0
    /\ sessionIdOf = [t \in TransportIds |-> Undefined]
    /\ closed = {}
    /\ serverTransport = NoTransport
    /\ toolInterval = "active"
    /\ lastBroadcast = NoBroadcast
    /\ inflight = [r \in Slots |-> Idle]
    /\ last = NoneEnded
    /\ timers = <<>>
    /\ listTools = setToolSchema
    /\ cleanedUp = FALSE
    /\ call = NoCall

-----------------------------------------------------------------------------
(* handlePostRequest *)

Suspend(r, pc, verb, header, body, transport) ==
    inflight' = [inflight EXCEPT ![r] =
                    [pc |-> pc, verb |-> verb, header |-> header, body |-> body,
                     transport |-> transport]]

\* A handler without the catch: the error rejects the handler's promise.
PostCaughtRethrows(r, header, body, by) ==
    /\ last' = Ended("POST", header, body, 0, NoResponse, by, TRUE)
    /\ inflight' = [inflight EXCEPT ![r] = Idle]

\* catch (error) { res.status(500).json(createErrorResponse(...)) }
PostCaught(r, header, body, by) ==
    /\ last' = Ended("POST", header, body, 500, createErrorResponse(InternalServerError),
                     by, FALSE)
    /\ inflight' = [inflight EXCEPT ![r] = Idle]

\* The request arrives and the handler runs up to its first await.
HandlePostRequest(r, header, body) ==
    /\ FreeSlot(r)
    /\ LET route == PostRoute(transports, header, body)
           t == TransportsGet(transports, header)
       IN  CASE route = "reuse" /\ t = ProtoMember ->
                  \* transport.handleRequest is not a function: TypeError, caught
                  /\ PostCaught(r, header, body, NoTransport)
                  /\ UNCHANGED <<created, serverTransport>>
             [] route = "reuse" /\ t # ProtoMember ->
                  /\ Suspend(r, "awaitHandle", "POST", header, body, t)
                  /\ last' = NoneEnded
                  /\ UNCHANGED <<created, serverTransport>>
             [] route = "create" ->
                  \* new StreamableHTTPServerTransport; this.server.connect(transport)
                  /\ created < MaxTransports
                  /\ created' = created + 1
                  /\ serverTransport' = created + 1
                  /\ Suspend(r, "awaitConnect", "POST", header, body, created + 1)
                  /\ last' = NoneEnded
             [] route = "reject" ->
                  /\ last' = Ended("POST", header, body, 400,
                                   createErrorResponse(BadRequest), NoTransport, FALSE)
                  /\ UNCHANGED <<inflight, created, serverTransport>>
    /\ lastBroadcast' = NoBroadcast
    /\ UNCHANGED <<transports, sessionIdOf, closed, toolInterval, timers, call,
                   listTools, cleanedUp>>

\* `await transport.handleRequest(req, res, req.body)` of the reuse branch
\* settles: it returned (ok) or threw.
PostReuseSettles(r, ok) ==
    /\ inflight[r].pc = "awaitHandle"
    /\ IF ok
       THEN /\ last' = Ended("POST", inflight[r].header, inflight[r].body, 0, NoResponse,
                             inflight[r].transport, FALSE)
            /\ inflight' = [inflight EXCEPT ![r] = Idle]
       ELSE PostCaught(r, inflight[r].header, inflight[r].body, inflight[r].transport)
    /\ lastBroadcast' = NoBroadcast
    /\ UNCHANGED <<transports, created, sessionIdOf, closed, serverTransport, toolInterval,
                   timers, call,
                   listTools, cleanedUp>>

\* `await this.server.connect(transport)` settles; on success the handler calls
\* transport.handleRequest, during which the SDK may assign transport.sessionId.
PostConnectSettles(r, ok, assigns) ==
    /\ inflight[r].pc = "awaitConnect"
    /\ IF ok
       THEN /\ inflight' = [inflight EXCEPT ![r].pc = "awaitHandleInit"]
            /\ sessionIdOf' = IF assigns
                              THEN [sessionIdOf EXCEPT ![inflight[r].transport] =
                                        randomUUID(inflight[r].transport)]
                              ELSE sessionIdOf
            /\ last' = NoneEnded
       ELSE /\ ~assigns
            /\ PostCaught(r, inflight[r].header, inflight[r].body, NoTransport)
            /\ UNCHANGED sessionIdOf
    /\ lastBroadcast' = NoBroadcast
    /\ UNCHANGED <<transports, created, closed, serverTransport, toolInterval, timers, call,
                   listTools, cleanedUp>>

\* The session map after `if (sessionId) this.transports[sessionId] = transport`.
Register(map, sessionId, transport) ==
    IF Truthy(sessionId) THEN [map EXCEPT ![sessionId] = transport] ELSE map

\* `await transport.handleRequest(req, res, req.body)` of the create branch settles.
PostInitSettles(r, ok) ==
    /\ inflight[r].pc = "awaitHandleInit"
    /\ IF ok
       THEN /\ transports' = Register(transports, sessionIdOf[inflight[r].transport],
                                      inflight[r].transport)
            /\ last' = Ended("POST", inflight[r].header, inflight[r].body, 0, NoResponse,
                             inflight[r].transport, FALSE)
            /\ inflight' = [inflight EXCEPT ![r] = Idle]
       ELSE /\ PostCaught(r, inflight[r].header, inflight[r].body, inflight[r].transport)
            /\ UNCHANGED transports
    /\ lastBroadcast' = NoBroadcast
    /\ UNCHANGED <<created, sessionIdOf, closed, serverTransport, toolInterval, timers, call,
                   listTools, cleanedUp>>

-----------------------------------------------------------------------------
(* Notifications *)

\* sendNotification is async and no caller awaits or catches its promise: when
\* transport.send fails, the failure is a rejection of that promise, which
\* nobody handles.  TRUE when the call leaves an unhandled rejection behind.
sendNotification(ok) == ~ok

Established == "SSE Connection established"
StreamingComplete == "Streaming complete!"

\* `Message ${messageCount} at ${new Date().toISOString()}`, without the clock.
MessageData(messageCount) == "Message " \o ToString(messageCount)

\* The value of messageCount at which the interval callback clears its interval.
LastTick == 2

Timer(transport, messageCount, active, sent) ==
    [transport |-> transport, messageCount |-> messageCount, active |-> active,
     sent |-> sent]

\* The synchronous body of streamMessages: one notification, then setInterval.
streamMessages(transport) == Timer(transport, 0, TRUE, <<Established>>)

\* An interval callback that clears the interval without the completion message.
IntervalCallbackNoComplete(tm, sendOk, completeOk) ==
    LET n == tm.messageCount + 1
    IN  Timer(tm.transport, n, n # LastTick, Append(tm.sent, MessageData(n)))

\* An interval callback that never clears its interval.
IntervalCallbackNeverClears(tm, sendOk, completeOk) ==
    Timer(tm.transport, tm.messageCount + 1, TRUE,
          Append(tm.sent, MessageData(tm.messageCount + 1)))

\* One run of the interval callback on a timer; sendOk and completeOk tell
\* whether transport.send succeeds for the message and for the completion.
\* A failed send rejects a promise the callback does not await, so its
\* try/catch never sees it.
IntervalCallback(tm, sendOk, completeOk) ==
    LET n == tm.messageCount + 1
    IN  IF n = LastTick
        THEN Timer(tm.transport, n, FALSE,
                   tm.sent \o <<MessageData(n), StreamingComplete>>)
        ELSE Timer(tm.transport, n, tm.active, Append(tm.sent, MessageData(n)))

-----------------------------------------------------------------------------
(* handleGetRequest *)

StreamsPending ==
    Len(timers) + Cardinality({q \in Slots : inflight[q].pc = "awaitHandleGet"})

\* The request arrives and the handler runs up to its first await.
HandleGetRequest(r, header) ==
    /\ FreeSlot(r)
    /\ LET route == GetRoute(transports, header)
           t == TransportsGet(transports, header)
       IN  CASE route = "reject" ->
                  /\ last' = Ended("GET", header, NoBody, 400,
                                   createErrorResponse(BadRequest), NoTransport, FALSE)
                  /\ UNCHANGED inflight
             [] route = "stream" /\ t = ProtoMember ->
                  \* transport.handleRequest is not a function: the TypeError
                  \* rejects the handler's promise, no response is written
                  /\ last' = Ended("GET", header, NoBody, 0, NoResponse, NoTransport, TRUE)
                  /\ UNCHANGED inflight
             [] route = "stream" /\ t # ProtoMember ->
                  /\ StreamsPending < MaxTimers
                  /\ Suspend(r, "awaitHandleGet", "GET", header, NoBody, t)
                  /\ last' = NoneEnded
    /\ lastBroadcast' = NoBroadcast
    /\ UNCHANGED <<transports, created, sessionIdOf, closed, serverTransport, toolInterval,
                   timers, call,
                   listTools, cleanedUp>>

\* `await transport.handleRequest(req, res)` settles; on success streamMessages
\* sends the first notification and starts the interval.
GetSettles(r, ok, sendOk) ==
    /\ inflight[r].pc = "awaitHandleGet"
    /\ IF ok
       THEN /\ timers' = Append(timers, streamMessages(inflight[r].transport))
            /\ last' = Ended("GET", inflight[r].header, NoBody, 0, NoResponse,
                             inflight[r].transport, FALSE)
       ELSE /\ sendOk
            /\ last' = Ended("GET", inflight[r].header, NoBody, 0, NoResponse,
                             inflight[r].transport, TRUE)
            /\ UNCHANGED timers
    /\ inflight' = [inflight EXCEPT ![r] = Idle]
    /\ lastBroadcast' = NoBroadcast
    /\ UNCHANGED <<transports, created, sessionIdOf, closed, serverTransport, toolInterval,
                   call,
                   listTools, cleanedUp>>

\* The interval of timer k fires.
StreamTick(k, sendOk, completeOk) ==
    /\ k \in 1..Len(timers)
    /\ timers[k].active
    /\ timers' = [timers EXCEPT ![k] = IntervalCallback(timers[k], sendOk, completeOk)]
    /\ last' = NoneEnded
    /\ lastBroadcast' = NoBroadcast
    /\ UNCHANGED <<transports, created, sessionIdOf, closed, serverTransport, toolInterval,
                   inflight, call,
                   listTools, cleanedUp>>

-----------------------------------------------------------------------------
(* Tool-change timer and cleanup *)

\* The toolInterval callback: one list_changed notification per value of the
\* session map; `failing` are the transports whose send fails.
ToolIntervalCallback(map, failing) ==
    LET values == ObjectValues(map)
    IN  Broadcast(values,
                  {t \in TransportIds : values[t] > 0 /\ t \in failing},
                  {t \in TransportIds : values[t] > 0 /\ sendNotification(t \notin failing)})

ToolTick(failing) ==
    /\ toolInterval = "active"
    /\ failing \subseteq {transports[k] : k \in Keys(transports)}
    /\ listTools' = setToolSchema
    /\ lastBroadcast' = ToolIntervalCallback(transports, failing)
    /\ last' = NoneEnded
    /\ UNCHANGED <<transports, created, sessionIdOf, closed, serverTransport, toolInterval,
                   inflight, timers, call, cleanedUp>>

\* A cleanup that leaves the interval running.
TimeoutLeftRunning(interval) == interval

\* this.toolInterval?.close()
TimeoutClose(interval) == "closed"

\* cleanup(): toolInterval.close(), then server.close(), which closes the
\* transport the server is connected to.
Cleanup ==
    /\ cleanedUp' = TRUE
    /\ toolInterval' = TimeoutClose(toolInterval)
    /\ closed' = IF serverTransport = NoTransport THEN closed
                 ELSE closed \cup {serverTransport}
    /\ serverTransport' = NoTransport
    /\ last' = NoneEnded
    /\ lastBroadcast' = NoBroadcast
    /\ UNCHANGED <<transports, created, sessionIdOf, inflight, timers, call,
                   listTools>>

-----------------------------------------------------------------------------
(* The HTTP server *)

Next ==
    \/ \E r \in Slots, h \in Headers, b \in Bodies : HandlePostRequest(r, h, b)
    \/ \E r \in Slots, ok \in BOOLEAN : PostReuseSettles(r, ok)
    \/ \E r \in Slots, ok \in BOOLEAN, assigns \in BOOLEAN : PostConnectSettles(r, ok, assigns)
    \/ \E r \in Slots, ok \in BOOLEAN : PostInitSettles(r, ok)
    \/ \E r \in Slots, h \in Headers : HandleGetRequest(r, h)
    \/ \E r \in Slots, ok \in BOOLEAN, sendOk \in BOOLEAN : GetSettles(r, ok, sendOk)
    \/ \E k \in 1..MaxTimers, sendOk \in BOOLEAN, completeOk \in BOOLEAN :
           StreamTick(k, sendOk, completeOk)
    \/ \E failing \in SUBSET TransportIds : ToolTick(failing)
    \/ Cleanup

Spec == Init /\ [][Next]_vars

-----------------------------------------------------------------------------
(* The call-tool handler (CallToolRequestSchema), HTTP and stdio servers *)

\* ErrorCode of the MCP SDK
MethodNotFound == -32601
InvalidParams == -32602
InternalError == -32603

\* new McpError(code, message): the SDK's McpError extends Error and prefixes
\* the message with the code.
McpError(code, message) ==
    [class |-> "McpError", code |-> code,
     message |-> "MCP error " \o ToString(code) \o ": " \o message]

\* new Error(message), and the errors the runtime and axios raise
Error(class, message) == [class |-> class, code |-> 0, message |-> message]

\* error instanceof Error
InstanceOfError(error) == error.class \in {"Error", "TypeError", "AxiosError", "McpError"}

ToolNames == {"get-weather", "get-wind", ""}

\* request.params.arguments: undefined, or an object whose latitude and
\* longitude are each undefined, empty or a coordinate.
Coordinates == {Undefined, "", "52.52", "13.41"}

Arguments == {[defined |-> FALSE, latitude |-> Undefined, longitude |-> Undefined]}
             \cup [defined : {TRUE}, latitude : Coordinates, longitude : Coordinates]

\* What the upstream GET can do: a body with a `current` section, a body
\* without one, no body, or a failure raised by axios.
Upstreams == {"current", "noCurrent", "noData", "timeout", "status500"}

\* Validate without the longitude test.
ValidateNoLongitude(name, args) ==
    IF name \notin {"get-weather"}
    THEN McpError(MethodNotFound, "Unknown tool: " \o name)
    ELSE IF ~args.defined
    THEN Error("TypeError", "Cannot read properties of undefined (reading 'latitude')")
    ELSE IF ~Truthy(args.latitude)
    THEN McpError(InvalidParams, "Missing required parameter: latitude")
    ELSE NoError

\* The statements of the try block before the network call: the error they
\* throw, NoError when they throw none.
Validate(name, args) ==
    IF name \notin {"get-weather"}
    THEN McpError(MethodNotFound, "Unknown tool: " \o name)
    ELSE IF ~args.defined
    THEN Error("TypeError", "Cannot read properties of undefined (reading 'latitude')")
    ELSE IF ~Truthy(args.latitude)
    THEN McpError(InvalidParams, "Missing required parameter: latitude")
    ELSE IF ~Truthy(args.longitude)
    THEN McpError(InvalidParams, "Missing required parameter: longitude")
    ELSE NoError

\* AfterGet without the test of response.data.current.
AfterGetNoCurrentCheck(upstream) ==
    CASE upstream \in {"current", "noCurrent", "noData"} -> NoError
      [] upstream = "timeout" -> Error("AxiosError", "timeout of 5000ms exceeded")
      [] upstream = "status500" ->
             Error("AxiosError", "Request failed with status code 500")

\* AfterGet with the test of response.data.current inverted.
AfterGetInverted(upstream) ==
    CASE upstream = "current" ->
             Error("Error", "No current weather data returned from Weather API")
      [] upstream \in {"noCurrent", "noData"} -> NoError
      [] upstream = "timeout" -> Error("AxiosError", "timeout of 5000ms exceeded")
      [] upstream = "status500" ->
             Error("AxiosError", "Request failed with status code 500")

\* The statements of the try block after the network call settled.
AfterGet(upstream) ==
    CASE upstream = "current" -> NoError
      [] upstream \in {"noCurrent", "noData"} ->
             Error("Error", "No current weather data returned from Weather API")
      [] upstream = "timeout" -> Error("AxiosError", "timeout of 5000ms exceeded")
      [] upstream = "status500" ->
             Error("AxiosError", "Request failed with status code 500")

\* The catch block: what the handler throws for an error raised in the try block.
Catch(error) ==
    IF InstanceOfError(error)
    THEN McpError(InternalError, "Failed to fetch data: " \o error.message)
    ELSE error

\* How the handler settles for an error of the try block (NoError: it returns).
Outcome(error) == IF error = NoError THEN NoError ELSE Catch(error)

-----------------------------------------------------------------------------
(* The call-tool handler of the stdio server (class Weather) *)

\* The statements of the try block before the network call.
WeatherValidate(name, args) ==
    IF name \notin {"get-weather"}
    THEN McpError(MethodNotFound, "Unknown tool: " \o name)
    ELSE IF ~args.defined
    THEN Error("TypeError", "Cannot read properties of undefined (reading 'latitude')")
    ELSE IF ~Truthy(args.latitude)
    THEN McpError(InvalidParams, "Missing required parameter: latitude")
    ELSE IF ~Truthy(args.longitude)
    THEN McpError(InvalidParams, "Missing required parameter: longitude")
    ELSE NoError

\* The statements of the try block after the network call settled.
WeatherAfterGet(upstream) ==
    CASE upstream = "current" -> NoError
      [] upstream \in {"noCurrent", "noData"} ->
             Error("Error", "No current weather data returned from Weather API")
      [] upstream = "timeout" -> Error("AxiosError", "timeout of 5000ms exceeded")
      [] upstream = "status500" ->
             Error("AxiosError", "Request failed with status code 500")

\* A catch block that rethrows an McpError as it is.
WeatherCatchKeepsMcpError(error) ==
    IF InstanceOfError(error) /\ error.class # "McpError"
    THEN McpError(InternalError, "Failed to fetch data: " \o error.message)
    ELSE error

\* The catch block.
WeatherCatch(error) ==
    IF InstanceOfError(error)
    THEN McpError(InternalError, "Failed to fetch data: " \o error.message)
    ELSE error

WeatherOutcome(error) == IF error = NoError THEN NoError ELSE WeatherCatch(error)

-----------------------------------------------------------------------------
(* Invocations of the call-tool handlers *)

Servers == {"http", "stdio"}

\* The handler of the given server, split at its await.
ValidateOn(server, name, args) ==
    IF server = "stdio" THEN WeatherValidate(name, args) ELSE Validate(name, args)

AfterGetOn(server, upstream) ==
    IF server = "stdio" THEN WeatherAfterGet(upstream) ELSE AfterGet(upstream)

OutcomeOn(server, error) ==
    IF server = "stdio" THEN WeatherOutcome(error) ELSE Outcome(error)

\* The handler is called and runs up to the network call or to its throw.
CallTool(server, name, args) ==
    /\ call.pc \in {"idle", "done"}
    /\ LET error == ValidateOn(server, name, args)
       IN  call' = IF error = NoError
                   THEN Call("awaitGet", server, name, args, 1, "", NoError)
                   ELSE Call("done", server, name, args, 0, "", OutcomeOn(server, error))
    /\ UNCHANGED httpVars

\* `await this.axiosInstance.get('/forecast', ...)` settles.
UpstreamSettles(upstream) ==
    /\ call.pc = "awaitGet"
    /\ call' = [call EXCEPT !.pc = "done", !.upstream = upstream,
                            !.error = OutcomeOn(call.server,
                                                AfterGetOn(call.server, upstream))]
    /\ UNCHANGED httpVars

NextTool ==
    \/ \E sv \in Servers, n \in ToolNames, a \in Arguments : CallTool(sv, n, a)
    \/ \E u \in Upstreams : UpstreamSettles(u)

SpecTool == Init /\ [][NextTool]_vars

-----------------------------------------------------------------------------
(* Properties *)

InitializeShaped(body) == \E i \in 1..Len(body.elems) : body.elems[i] = "initialize"

BadRequestEnvelope ==
    [jsonrpc |-> "2.0",
     error |-> [code |-> -32000, message |-> "Bad Request: invalid session ID or method."]]

\* C1 (as stated): a POST without the session header and with an
\* initialize-shaped body, once it has completed without a throw, has left
\* its new transport in the session map.
C1_RegisteredAfterInitialPost ==
    (/\ last.verb = "POST" /\ last.header = Undefined /\ InitializeShaped(last.body)
     /\ last.status = 0)
        => \E k \in Keys(transports) : transports[k] = last.by

\* C1 (amended): a transport is constructed, and the session map changed, only
\* for a POST whose header is absent or empty and whose body is
\* initialize-shaped; such a POST is never answered 400; the map changes only
\* when that POST's handleRequest returned, by adding the transport under the
\* session id it was assigned; and when such a POST ends without a throw and
\* its transport has a session id, the map holds that id for that transport.
C1_SessionCreation ==
    /\ [](\A r \in Slots : inflight[r].pc \in {"awaitConnect", "awaitHandleInit"} =>
             ~Truthy(inflight[r].header) /\ InitializeShaped(inflight[r].body))
    /\ []((last.verb = "POST" /\ last.status = 400) =>
             Truthy(last.header) \/ ~InitializeShaped(last.body))
    /\ []((last.verb = "POST" /\ ~Truthy(last.header) /\ last.status = 0
             /\ Truthy(sessionIdOf[last.by])) =>
             transports[sessionIdOf[last.by]] = last.by)
    /\ [][created' # created =>
             \E r \in Slots : /\ inflight[r].pc = "idle"
                              /\ inflight'[r].pc = "awaitConnect"
                              /\ inflight'[r].transport = created']_vars
    /\ [][transports' # transports =>
             \E r \in Slots :
                LET t == inflight[r].transport
                IN  /\ inflight[r].pc = "awaitHandleInit"
                    /\ Truthy(sessionIdOf[t])
                    /\ transports[sessionIdOf[t]] = NoTransport
                    /\ transports' = [transports EXCEPT ![sessionIdOf[t]] = t]
                    /\ last'.status = 0 /\ last'.by = t]_vars

\* C1 witness: a batch POST with an empty header has ended with its new
\* transport registered under the session id it was assigned.
C1_Witness ==
    /\ last.verb = "POST" /\ last.header = "" /\ last.body.isArray
    /\ last.status = 0
    /\ Truthy(sessionIdOf[last.by])
    /\ transports[sessionIdOf[last.by]] = last.by

\* C2 (as stated): a GET or POST whose header is absent, empty or not a key of
\* the session map (a POST that qualifies for session creation aside) is
\* answered 400 with the Bad Request envelope.
C2_InvalidSessionIs400 ==
    (/\ last.verb \in {"GET", "POST"}
     /\ ~Truthy(last.header) \/ last.header \notin Keys(transports)
     /\ ~(last.verb = "POST" /\ ~Truthy(last.header) /\ InitializeShaped(last.body)))
        => last.status = 400 /\ last.response = BadRequestEnvelope

\* C3: a POST bearing a registered session id is given to the transport stored
\* under that id, while it is suspended and when it ends, and the steps that
\* route and end it leave the session map and the set of transports alone.
C3_ReuseRoutesToRegistered ==
    /\ [](\A r \in Slots : inflight[r].pc = "awaitHandle" =>
             /\ inflight[r].header \in Keys(transports)
             /\ inflight[r].transport = transports[inflight[r].header])
    /\ []((last.verb = "POST" /\ last.header \in Keys(transports)) =>
             last.by = transports[last.header])
    /\ [][\A r \in Slots :
             (inflight[r].pc = "awaitHandle" \/ inflight'[r].pc = "awaitHandle") =>
                 (inflight'[r] # inflight[r] =>
                     transports' = transports /\ created' = created)]_vars

\* C3 witness: a POST with a registered id has ended on the transport stored
\* under it while a second POST with the same id is with the same transport.
C3_Witness ==
    /\ last.verb = "POST" /\ last.status = 0
    /\ last.header \in Keys(transports)
    /\ last.by = transports[last.header]
    /\ \E r \in Slots : /\ inflight[r].pc = "awaitHandle"
                        /\ inflight[r].header = last.header
                        /\ inflight[r].transport = last.by

StreamSequence ==
    <<"SSE Connection established", "Message 1", "Message 2", "Streaming complete!">>

\* C4: what a stream timer has sent is always the first messages of
\* established, message 1, message 2, complete; a running timer has sent one
\* message per tick after the first; a cleared timer has sent exactly the four
\* and never sends again.
C4_StreamSequence ==
    /\ [](\A k \in 1..Len(timers) :
             /\ Len(timers[k].sent) <= Len(StreamSequence)
             /\ timers[k].sent = SubSeq(StreamSequence, 1, Len(timers[k].sent))
             /\ timers[k].active => Len(timers[k].sent) = 1 + timers[k].messageCount
             /\ ~timers[k].active => timers[k].sent = StreamSequence)
    /\ [][\A k \in 1..Len(timers) : ~timers[k].active => timers'[k] = timers[k]]_vars

\* C4 witness: a timer has been cleared after sending the four messages.
C4_Witness ==
    \E k \in 1..Len(timers) : ~timers[k].active /\ timers[k].sent = StreamSequence

\* C5 (as stated): no stream timer sends to a transport that has been closed.
C5_NoSendAfterClose ==
    [][\A k \in 1..Len(timers) :
          timers[k].transport \in closed => timers'[k].sent = timers[k].sent]_vars

\* C6 (as stated): the session map holds no closed transport.
C6_MapHoldsOnlyOpen ==
    \A k \in Keys(transports) : transports[k] \notin closed

\* C7 (as stated): a failed send of the tool-change broadcast is handled
\* inside the broadcaster and leaves no unhandled rejection.
C7_BroadcastFailureHandled ==
    lastBroadcast.failed # {} => lastBroadcast.unhandled = {}

\* C8 (as stated): a call for a tool other than get-weather fails with
\* MethodNotFound.
C8_UnknownToolIsMethodNotFound ==
    (call.pc = "done" /\ call.name # "get-weather") => call.error.code = -32601

\* C9 (as stated): get-weather without latitude fails with InvalidParams naming
\* latitude (also when longitude is missing too), and with latitude but
\* without longitude fails with InvalidParams naming longitude.
C9_MissingCoordinateIsInvalidParams ==
    (call.pc = "done" /\ call.name = "get-weather" /\ call.args.defined) =>
        /\ ~Truthy(call.args.latitude) =>
              /\ call.error.code = -32602
              /\ call.error.message = "MCP error -32602: Missing required parameter: latitude"
        /\ (Truthy(call.args.latitude) /\ ~Truthy(call.args.longitude)) =>
              /\ call.error.code = -32602
              /\ call.error.message = "MCP error -32602: Missing required parameter: longitude"

\* C10: a call with an unknown tool name, or without latitude or longitude,
\* has issued no outbound GET and is not waiting for one.
C10_NoGetOnInvalidInput ==
    (/\ call.pc # "idle"
     /\ \/ call.name # "get-weather"
        \/ ~Truthy(call.args.latitude)
        \/ ~Truthy(call.args.longitude))
        => call.gets = 0 /\ call.pc = "done" /\ call.error # NoError

\* C10 witness: a get-weather call with latitude and without longitude has
\* failed without a GET.
C10_Witness ==
    /\ call.pc = "done" /\ call.name = "get-weather"
    /\ Truthy(call.args.latitude) /\ call.args.longitude = ""
    /\ call.gets = 0 /\ call.error # NoError

\* C11: a call whose GET failed, or returned no `current` section, has thrown
\* InternalError with "Failed to fetch data: " before the failure's message.
C11_UpstreamFailureIsInternalError ==
    (call.pc = "done" /\ call.gets = 1 /\ call.upstream # "current") =>
        /\ call.error.class = "McpError"
        /\ call.error.code = -32603
        /\ call.error.message =
              "MCP error -32603: Failed to fetch data: " \o
              ( CASE call.upstream = "timeout" -> "timeout of 5000ms exceeded"
                  [] call.upstream = "status500" -> "Request failed with status code 500"
                  [] call.upstream \in {"noCurrent", "noData"} ->
                         "No current weather data returned from Weather API" )

\* C11 witness: an HTTP-server call whose GET returned a body without `current`
\* has thrown InternalError.
C11_Witness ==
    /\ call.pc = "done" /\ call.server = "http" /\ call.upstream = "noCurrent"
    /\ call.error.code = -32603

\* C12: a get-weather call with both coordinates whose GET returned a body
\* with `current` has returned without an error after exactly one GET, and no
\* call ever issues more than one.
C12_ValidCallSucceedsWithOneGet ==
    /\ call.gets <= 1
    /\ (/\ call.pc = "done" /\ call.name = "get-weather"
        /\ call.args.defined /\ Truthy(call.args.latitude) /\ Truthy(call.args.longitude)
        /\ call.upstream = "current")
           => call.error = NoError /\ call.gets = 1

\* C12 witness: an HTTP-server call with both coordinates has returned.
C12_Witness ==
    /\ call.pc = "done" /\ call.server = "http" /\ call.name = "get-weather"
    /\ call.upstream = "current" /\ call.error = NoError /\ call.gets = 1

\* C13: a tool-change tick that sends at all sends exactly one list_changed
\* notification to every transport registered in the session map and none to
\* any other transport, and list-tools always returns the one get-weather
\* descriptor.
C13_BroadcastOncePerSession ==
    /\ Len(listTools) = 1
    /\ listTools[1].name = "get-weather"
    /\ listTools[1].inputSchema.required = <<"latitude", "longitude">>
    /\ lastBroadcast # NoBroadcast =>
          \A t \in TransportIds :
             lastBroadcast.sent[t] =
                IF \E k \in Keys(transports) : transports[k] = t THEN 1 ELSE 0

\* C13 witness: a tick has sent one notification to each of two registered
\* sessions while a third transport, constructed but not registered, got none.
C13_Witness ==
    /\ Cardinality({t \in TransportIds : lastBroadcast.sent[t] = 1}) >= 1
    /\ \E t \in 1..created : /\ lastBroadcast.sent[t] = 0
                             /\ \A k \in Keys(transports) : transports[k] # t

\* C14: once cleanup has been called the tool-change interval is closed and
\* no step broadcasts; and the interval is closed only if cleanup was called.
C14_CleanupCancelsToolInterval ==
    /\ cleanedUp => toolInterval = "closed" /\ lastBroadcast = NoBroadcast
    /\ toolInterval = "closed" => cleanedUp

\* C14 witness: after cleanup, with a session registered, a POST has been
\* handled and nothing was broadcast.
C14_Witness ==
    /\ cleanedUp /\ Keys(transports) # {}
    /\ last.verb = "POST" /\ last.status = 0
    /\ toolInterval = "closed"

\* C15 (as stated): constructing the transport of a new session leaves the
\* binding between the protocol server and the transport of a registered
\* session unchanged.
C15_NewSessionKeepsBinding ==
    [][(created' # created /\ \E k \in Keys(transports) : transports[k] = serverTransport)
          => serverTransport' = serverTransport]_vars

\* C16: a POST whose handling throws is answered 500 with the Internal server
\* error envelope and never rejects the handler's promise; the step that
\* answers 500 leaves the session map unchanged, and the transport of a
\* session-creating POST answered 500 is not in the map.
C16_ThrowIs500AndUnregistered ==
    /\ [](last.status = 500 =>
             /\ last.verb = "POST"
             /\ last.response = [jsonrpc |-> "2.0",
                                 error |-> [code |-> -32000,
                                            message |-> "Internal server error."]])
    /\ [](last.verb = "POST" => ~last.rejected)
    /\ []((last.status = 500 /\ ~Truthy(last.header)) =>
             \A k \in Keys(transports) : transports[k] # last.by)
    /\ [][last'.status = 500 => transports' = transports]_vars

\* C16 witness: a session-creating POST whose transport had been assigned a
\* session id threw in handleRequest: answered 500, the id is not in the map.
C16_Witness ==
    /\ last.verb = "POST" /\ last.status = 500 /\ ~Truthy(last.header)
    /\ last.by # NoTransport
    /\ Truthy(sessionIdOf[last.by])
    /\ transports[sessionIdOf[last.by]] = NoTransport

\* C17 (as stated): no two stream timers belong to the same session.
C17_OneTimerPerSession ==
    \A j, k \in 1..Len(timers) : j # k => timers[j].transport # timers[k].transport

\* C18 (as stated): a request bearing the session id assigned to the
\* transport of a session being created is never answered 400.
C18_IssuedIdNeverRejected ==
    (last.status = 400 /\ Truthy(last.header)) =>
        \A r \in Slots : inflight[r].pc = "awaitHandleInit" =>
            sessionIdOf[inflight[r].transport] # last.header

\* C19: a stream timer never ticks more than twice, runs while it has ticked
\* fewer than two times and is cleared once it has ticked twice.
C19_StreamTimerStops ==
    \A k \in 1..Len(timers) :
        /\ timers[k].messageCount \in 0..2
        /\ timers[k].active <=> timers[k].messageCount < 2

\* C19 witness: the timer of a transport that was closed meanwhile has ticked
\* twice and is cleared.
C19_Witness ==
    \E k \in 1..Len(timers) :
        /\ timers[k].transport \in closed
        /\ timers[k].messageCount = 2 /\ ~timers[k].active

\* C20: whatever one server's handler did on a request (the error it threw or
\* its return, and its number of GETs), the other server's handler does the
\* same on that request and upstream outcome.
C20_HandlersEquivalent ==
    LET other == IF call.server = "stdio" THEN "http" ELSE "stdio"
        invalid == ValidateOn(other, call.name, call.args)
    IN  /\ call.pc = "awaitGet" => invalid = NoError /\ call.gets = 1
        /\ (call.pc = "done" /\ call.gets = 0) =>
              invalid # NoError /\ call.error = OutcomeOn(other, invalid)
        /\ (call.pc = "done" /\ call.gets = 1) =>
              /\ invalid = NoError
              /\ call.error = OutcomeOn(other, AfterGetOn(other, call.upstream))

\* C20 witness: a stdio call for an unknown tool has thrown without a GET.
C20_Witness ==
    /\ call.pc = "done" /\ call.server = "stdio" /\ call.name = "get-wind"
    /\ call.gets = 0 /\ call.error # NoError

====
